---- MODULE Spec2Model ----
(***************************************************************************)
(* The invoice smart contract: instantiate, execute (AddInvoice,           *)
(* CancelInvoice, PayInvoice) and query over a key-value storage made of   *)
(* the "config" singleton, the "invoice" bucket and cw2's "contract_info". *)
(* Every entry point is one atomic action that runs the whole handler on   *)
(* the storage; the storage is the one the handler is given (as in the     *)
(* unit tests, writes are not rolled back by anyone on an Err).            *)
(***************************************************************************)
EXTENDS Integers, Sequences, FiniteSets, TLC

VARIABLES storage, call, result, pre, events, ledger

vars == <<storage, call, result, pre, events, ledger>>

----------------------------------------------------------------------------
(* Bounds of the explored inputs *)

\* the amounts of AddInvoice range over 0..MaxAmount
MaxAmount == 2
\* the attached funds are the lists of coins that total at most MaxFunds
MaxFunds == 3
\* the host's ledger is followed until the funds attached to the calls
\* total MaxLedger
MaxLedger == 3

----------------------------------------------------------------------------
(* Option and Result *)

None == <<>>
Some(x) == <<x>>
unwrap(o) == o[1]

Ok(v) == [ok |-> TRUE, val |-> v]
Err(e) == [ok |-> FALSE, err |-> e]

----------------------------------------------------------------------------
(* Input universe *)

ADMIN == "admin"
RECIPIENT == "recipient"
PAYER == "payer"
Principals == {ADMIN, RECIPIENT, PAYER}

\* the id of the unit tests, the same UUID in upper case, and a string that
\* is no UUID
INVOICE_ID == "63069195-bc51-41bd-80d7-0ab84b98e283"
INVOICE_ID_UPPER == "63069195-BC51-41BD-80D7-0AB84B98E283"
FAKE_ID == "fake-id"
IdStrings == {INVOICE_ID, INVOICE_ID_UPPER, FAKE_ID}

TEST_DENOM == "testdenom"
WRONG_DENOM == "wrongdenom"
RESTRICTED_DENOM == "restricteddenom"
BUSINESS_NAME == "company"
DESCRIPTION == "description"

Amounts == 0..MaxAmount
Descriptions == {None, Some(DESCRIPTION)}

Coin == [denom : {TEST_DENOM, WRONG_DENOM}, amount : 1..MaxFunds]

\* the lists of coins (any order, repeated denoms allowed) totalling at most t
RECURSIVE FundsUpTo(_)
FundsUpTo(t) ==
    {<<>>} \cup UNION {{<<c>> \o rest : rest \in FundsUpTo(t - c.amount)} :
                         c \in {x \in Coin : x.amount <= t}}

Funds == FundsUpTo(MaxFunds)

AddInvoiceMsgs ==
    {[type |-> "AddInvoice", id |-> i, amount |-> a, description |-> d] :
        i \in IdStrings, a \in Amounts, d \in Descriptions}
CancelInvoiceMsgs == {[type |-> "CancelInvoice", id |-> i] : i \in IdStrings}
PayInvoiceMsgs == {[type |-> "PayInvoice", id |-> i] : i \in IdStrings}
QueryMsgs ==
    {[type |-> "GetInvoice", id |-> i] : i \in IdStrings}
        \cup {[type |-> "GetContractInfo"], [type |-> "GetVersionInfo"]}
InstantiateMsgs ==
    [denom : {"", TEST_DENOM, RESTRICTED_DENOM, WRONG_DENOM},
     recipient : {"", RECIPIENT},
     business_name : {"", BUSINESS_NAME}]

----------------------------------------------------------------------------
(* Errors *)

InvalidFields(fields) == [kind |-> "InvalidFields", fields |-> fields]
Unauthorized(error) == [kind |-> "Unauthorized", error |-> error]
SentFundsUnsupported == [kind |-> "SentFundsUnsupported"]
SentFundsInvoiceMismatch == [kind |-> "SentFundsInvoiceMismatch"]
LoadInvoiceFailed(error) == [kind |-> "LoadInvoiceFailed", error |-> error]
UnsupportedMarkerType == [kind |-> "UnsupportedMarkerType"]
\* a StdError carried by `?` into ContractError
\* (the reason of Unauthorized is kept as its list of words)
Std(error) == [kind |-> "Std", error |-> error]

NotFound(what) == [kind |-> "NotFound", what |-> what]
GenericErr(msg) == [kind |-> "GenericErr", msg |-> msg]

contract_err(msg) == Std(GenericErr(msg))

----------------------------------------------------------------------------
(* Storage: the config singleton, the invoice bucket, cw2's version item *)

CRATE_NAME == "CARGO_CRATE_NAME"
PACKAGE_VERSION == "CARGO_PKG_VERSION"

\* (variant) the recipient made the admin
State_recipient_as_admin(admin, recipient, denom, business_name) ==
    [admin |-> recipient, recipient |-> recipient, denom |-> denom,
     business_name |-> business_name]

State(admin, recipient, denom, business_name) ==
    [admin |-> admin, recipient |-> recipient, denom |-> denom,
     business_name |-> business_name]

\* (variant) an absent description is stored as the empty string
Invoice_default_description(id, amount, description) ==
    [id |-> id, amount |-> amount,
     description |-> IF description = <<>> THEN <<"">> ELSE description]

Invoice(id, amount, description) ==
    [id |-> id, amount |-> amount, description |-> description]

EmptyBucket == [k \in {} |-> None]

EmptyStorage == [config |-> None, invoice |-> EmptyBucket, contract_info |-> None]

\* (variant) an absent configuration loads as a default one
config_read_or_default(st) ==
    IF st.config = None THEN Ok(State("", "", "", ""))
    ELSE Ok(unwrap(st.config))

\* ReadonlySingleton::load on the config singleton
config_read(st) ==
    IF st.config = None THEN Err(NotFound("invoice::state::State"))
    ELSE Ok(unwrap(st.config))

\* Singleton::save on the config singleton
config(st, state) == [st EXCEPT !.config = Some(state)]

\* the invoice bucket and its operations
get_invoice_storage(st) == st.invoice

\* (variant) looks the key up folded to lower case
may_load_folded_key(bucket, key) ==
    LET folded == IF key = INVOICE_ID_UPPER THEN INVOICE_ID ELSE key IN
    IF folded \in DOMAIN bucket THEN Some(bucket[folded]) ELSE None

\* (variant) never finds the key
may_load_none(bucket, key) == None

may_load(bucket, key) ==
    IF key \in DOMAIN bucket THEN Some(bucket[key]) ELSE None

\* (variant) an absent key loads as a default record instead of failing
load_or_default(bucket, key) ==
    IF key \in DOMAIN bucket THEN Ok(bucket[key])
    ELSE Ok([id |-> key, amount |-> 0, description |-> None])

load(bucket, key) ==
    IF key \in DOMAIN bucket THEN Ok(bucket[key])
    ELSE Err(NotFound("invoice::state::Invoice"))

\* (variant) the write leaves nothing else in the bucket
save_alone(bucket, key, value) == [k \in {key} |-> value]

\* (variant) the key folded to lower case before the write
save_folded_key(bucket, key, value) ==
    LET folded == IF key = INVOICE_ID_UPPER THEN INVOICE_ID ELSE key IN
    [k \in DOMAIN bucket \cup {folded} |->
        IF k = folded THEN value ELSE bucket[k]]

save(bucket, key, value) ==
    [k \in DOMAIN bucket \cup {key} |-> IF k = key THEN value ELSE bucket[k]]

\* (variant) the key folded to lower case before the removal
remove_folded_key(bucket, key) ==
    [k \in DOMAIN bucket \ {IF key = INVOICE_ID_UPPER THEN INVOICE_ID ELSE key}
        |-> bucket[k]]

\* (variant) removes nothing
remove_noop(bucket, key) == bucket

\* (variant) clears the whole bucket
remove_all(bucket, key) == [k \in {} |-> None]

remove(bucket, key) == [k \in DOMAIN bucket \ {key} |-> bucket[k]]

\* (variant) the read-only bucket opened under a key nothing is stored under
get_invoice_storage_read_other_key(st) == EmptyBucket

get_invoice_storage_read(st) == st.invoice

set_contract_version(st, name, version) ==
    [st EXCEPT !.contract_info = Some([contract |-> name, version |-> version])]

get_contract_version(st) ==
    IF st.contract_info = None THEN Err(NotFound("cw2::ContractVersion"))
    ELSE Ok(unwrap(st.contract_info))

----------------------------------------------------------------------------
(* Validation *)

\* Uuid::parse_str on the id strings of the input universe: the two
\* spellings parse to the same UUID, FAKE_ID does not parse
Uuid_parse_str(id) ==
    CASE id = INVOICE_ID -> Ok(INVOICE_ID)
      [] id = INVOICE_ID_UPPER -> Ok(INVOICE_ID)
      [] OTHER -> Err("invalid uuid")

\* String::len: the bytes of the UTF-8 encoding, which is one byte for each
\* character of the ASCII strings of the input universe
str_len(s) == Len(s)

\* the longest description accepted
MaxDescriptionLen == 64

\* the smallest amount accepted
MinAmount == 1

ValidateResult(invalid_fields) ==
    IF Len(invalid_fields) = 0 THEN Ok("unit")
    ELSE Err(InvalidFields(invalid_fields))

\* (variant) the amount is not looked at
ExecuteMsg_validate_any_amount(msg) ==
    LET idf == IF ~Uuid_parse_str(msg.id).ok THEN <<"id">> ELSE <<>>
    IN  IF msg.type = "AddInvoice"
        THEN LET df == IF msg.description # None
                          /\ (str_len(unwrap(msg.description)) = 0
                              \/ str_len(unwrap(msg.description)) > MaxDescriptionLen)
                       THEN <<"description">> ELSE <<>>
             IN  ValidateResult(idf \o df)
        ELSE ValidateResult(idf)

\* (variant) stops at the first invalid field
ExecuteMsg_validate_short_circuit(msg) ==
    IF ~Uuid_parse_str(msg.id).ok THEN Err(InvalidFields(<<"id">>))
    ELSE IF msg.type # "AddInvoice" THEN Ok("unit")
    ELSE IF msg.amount < MinAmount THEN Err(InvalidFields(<<"amount">>))
    ELSE IF msg.description # None
            /\ (str_len(unwrap(msg.description)) = 0
                \/ str_len(unwrap(msg.description)) > MaxDescriptionLen)
    THEN Err(InvalidFields(<<"description">>))
    ELSE Ok("unit")

ExecuteMsg_validate(msg) ==
    LET idf == IF ~Uuid_parse_str(msg.id).ok THEN <<"id">> ELSE <<>>
    IN  IF msg.type = "AddInvoice"
        THEN LET af == IF msg.amount < MinAmount THEN <<"amount">> ELSE <<>>
                 df == IF msg.description # None
                          /\ (str_len(unwrap(msg.description)) = 0
                              \/ str_len(unwrap(msg.description)) > MaxDescriptionLen)
                       THEN <<"description">> ELSE <<>>
             IN  ValidateResult(idf \o af \o df)
        ELSE ValidateResult(idf)

QueryMsg_validate(msg) ==
    IF msg.type = "GetInvoice"
    THEN ValidateResult(IF ~Uuid_parse_str(msg.id).ok THEN <<"id">> ELSE <<>>)
    ELSE ValidateResult(<<>>)

\* (variant) stops at the first empty field
InstantiateMsg_validate_first_only(msg) ==
    IF msg.denom = "" THEN Err(InvalidFields(<<"denom">>))
    ELSE IF msg.business_name = "" THEN Err(InvalidFields(<<"business_name">>))
    ELSE Ok("unit")

InstantiateMsg_validate(msg) ==
    LET df == IF msg.denom = "" THEN <<"denom">> ELSE <<>>
        bf == IF msg.business_name = "" THEN <<"business_name">> ELSE <<>>
    IN  ValidateResult(df \o bf)

----------------------------------------------------------------------------
(* Responses *)

\* (variant) nobody is refused
Addr_ne_never(a, b) == FALSE

\* (variant) the comparison inverted
Addr_ne_inverted(a, b) == a = b

\* Addr's `!=`
Addr_ne(a, b) == a # b

\* (variant) a single coin still counts as no funds
is_empty_upto_one(funds) == Len(funds) <= 1

\* Vec<Coin>::is_empty
is_empty(funds) == Len(funds) = 0

RECURSIVE Total(_)
Total(cs) == IF Len(cs) = 0 THEN 0 ELSE cs[1].amount + Total(Tail(cs))

\* (variant) compares the totals of the two lists, not the lists
ne_total(funds, amount) == Total(funds) # Total(amount)

\* Vec<Coin>::ne
ne(funds, amount) == funds # amount

\* (variant) key and value exchanged
attr_swapped(key, value) == [key |-> value, value |-> key]

attr(key, value) == [key |-> key, value |-> value]

Response(attributes, messages) ==
    [attributes |-> attributes, messages |-> messages]

coins(amount, denom) == <<[denom |-> denom, amount |-> amount]>>

\* (variant) an instruction that sends no coin
BankSend_nothing(to_address, amount) ==
    [type |-> "BankMsg::Send", to_address |-> to_address, amount |-> <<>>]

BankSend(to_address, amount) ==
    [type |-> "BankMsg::Send", to_address |-> to_address, amount |-> amount]

\* (variant) Cancel displayed under Add's name
ActionCancel_as_add == "add_invoice"

\* fmt::Display of Action
ActionAdd == "add_invoice"
ActionCancel == "cancel_invoice"
ActionPay == "pay_invoice"

\* a handler's outcome: what it returns and the storage it leaves
Outcome(res, st) == [result |-> res, storage |-> st]

----------------------------------------------------------------------------
(* execute *)

\* (variant) add_invoice checking the funds before the caller
add_invoice_funds_first(st, info, id, amount, description) ==
    LET loaded == config_read(st) IN
    IF ~loaded.ok THEN Outcome(Err(Std(loaded.err)), st)
    ELSE
    LET state == loaded.val IN
    IF ~is_empty(info.funds)
    THEN Outcome(Err(SentFundsUnsupported), st)
    ELSE IF Addr_ne(info.sender, state.admin)
    THEN Outcome(Err(Unauthorized(<<"Only", "admin", "can", "add", "invoice">>)), st)
    ELSE
    LET invoice == Invoice(id, amount, description)
        invoice_storage == get_invoice_storage(st)
    IN
    IF may_load(invoice_storage, invoice.id) # None
    THEN Outcome(Err(InvalidFields(<<"id">>)), st)
    ELSE
    LET response == Response(<<attr("action", ActionAdd),
                               attr("id", invoice.id),
                               attr("denom", state.denom),
                               attr("amount", ToString(invoice.amount)),
                               attr("recipient", state.recipient)>>, <<>>)
    IN  Outcome(Ok(response),
                [st EXCEPT !.invoice = save(invoice_storage, invoice.id, invoice)])

add_invoice(st, info, id, amount, description) ==
    LET loaded == config_read(st) IN
    IF ~loaded.ok THEN Outcome(Err(Std(loaded.err)), st)
    ELSE
    LET state == loaded.val IN
    IF Addr_ne(info.sender, state.admin)
    THEN Outcome(Err(Unauthorized(<<"Only", "admin", "can", "add", "invoice">>)), st)
    ELSE IF ~is_empty(info.funds)
    THEN Outcome(Err(SentFundsUnsupported), st)
    ELSE
    LET invoice == Invoice(id, amount, description)
        invoice_storage == get_invoice_storage(st)
    IN
    IF may_load(invoice_storage, invoice.id) # None
    THEN Outcome(Err(InvalidFields(<<"id">>)), st)
    ELSE
    LET response == Response(<<attr("action", ActionAdd),
                               attr("id", invoice.id),
                               attr("denom", state.denom),
                               attr("amount", ToString(invoice.amount)),
                               attr("recipient", state.recipient)>>, <<>>)
    IN  Outcome(Ok(response),
                [st EXCEPT !.invoice = save(invoice_storage, invoice.id, invoice)])

\* (variant) cancel_invoice loading the invoice before it checks the caller
cancel_invoice_lookup_first(st, info, id) ==
    LET loaded == config_read(st) IN
    IF ~loaded.ok THEN Outcome(Err(Std(loaded.err)), st)
    ELSE
    LET state == loaded.val
        invoice_storage == get_invoice_storage(st)
        found == load(invoice_storage, id)
    IN
    IF ~found.ok THEN Outcome(Err(LoadInvoiceFailed(found.err)), st)
    ELSE IF Addr_ne(info.sender, state.admin)
    THEN Outcome(Err(Unauthorized(<<"Only", "admin", "can", "cancel", "invoice">>)), st)
    ELSE IF ~is_empty(info.funds)
    THEN Outcome(Err(SentFundsUnsupported), st)
    ELSE
    LET invoice == found.val
        response == Response(<<attr("action", ActionCancel),
                               attr("id", invoice.id),
                               attr("denom", state.denom),
                               attr("amount", ToString(invoice.amount)),
                               attr("recipient", state.recipient)>>, <<>>)
    IN  Outcome(Ok(response),
                [st EXCEPT !.invoice = remove(invoice_storage, invoice.id)])

\* (variant) cancel_invoice removing from the config singleton instead of
\* the invoice bucket
cancel_invoice_wrong_store(st, info, id) ==
    LET loaded == config_read(st) IN
    IF ~loaded.ok THEN Outcome(Err(Std(loaded.err)), st)
    ELSE
    LET state == loaded.val IN
    IF Addr_ne(info.sender, state.admin)
    THEN Outcome(Err(Unauthorized(<<"Only", "admin", "can", "cancel", "invoice">>)), st)
    ELSE IF ~is_empty(info.funds)
    THEN Outcome(Err(SentFundsUnsupported), st)
    ELSE
    LET invoice_storage == get_invoice_storage(st)
        found == load(invoice_storage, id)
    IN
    IF ~found.ok THEN Outcome(Err(LoadInvoiceFailed(found.err)), st)
    ELSE
    LET invoice == found.val
        response == Response(<<attr("action", ActionCancel),
                               attr("id", invoice.id),
                               attr("denom", state.denom),
                               attr("amount", ToString(invoice.amount)),
                               attr("recipient", state.recipient)>>, <<>>)
    IN  Outcome(Ok(response), [st EXCEPT !.config = None])

cancel_invoice(st, info, id) ==
    LET loaded == config_read(st) IN
    IF ~loaded.ok THEN Outcome(Err(Std(loaded.err)), st)
    ELSE
    LET state == loaded.val IN
    IF Addr_ne(info.sender, state.admin)
    THEN Outcome(Err(Unauthorized(<<"Only", "admin", "can", "cancel", "invoice">>)), st)
    ELSE IF ~is_empty(info.funds)
    THEN Outcome(Err(SentFundsUnsupported), st)
    ELSE
    LET invoice_storage == get_invoice_storage(st)
        found == load(invoice_storage, id)
    IN
    IF ~found.ok THEN Outcome(Err(LoadInvoiceFailed(found.err)), st)
    ELSE
    LET invoice == found.val
        response == Response(<<attr("action", ActionCancel),
                               attr("id", invoice.id),
                               attr("denom", state.denom),
                               attr("amount", ToString(invoice.amount)),
                               attr("recipient", state.recipient)>>, <<>>)
    IN  Outcome(Ok(response),
                [st EXCEPT !.invoice = remove(invoice_storage, invoice.id)])

\* (variant) pay_invoice removing the invoice before it checks the funds
pay_invoice_remove_first(st, info, id) ==
    LET loaded == config_read(st) IN
    IF ~loaded.ok THEN Outcome(Err(Std(loaded.err)), st)
    ELSE
    LET state == loaded.val
        invoice_storage == get_invoice_storage(st)
        found == load(invoice_storage, id)
    IN
    IF ~found.ok THEN Outcome(Err(LoadInvoiceFailed(found.err)), st)
    ELSE
    LET invoice == found.val
        amount == coins(invoice.amount, state.denom)
        st1 == [st EXCEPT !.invoice = remove(invoice_storage, invoice.id)]
    IN
    IF ne(info.funds, amount)
    THEN Outcome(Err(SentFundsInvoiceMismatch), st1)
    ELSE
    LET response == Response(<<attr("action", ActionPay),
                               attr("id", invoice.id),
                               attr("denom", state.denom),
                               attr("amount", ToString(invoice.amount)),
                               attr("sender", info.sender),
                               attr("recipient", state.recipient)>>,
                             <<BankSend(state.recipient, amount)>>)
    IN  Outcome(Ok(response), st1)

\* (variant) pay_invoice refusing every caller but the admin, as Cancel does
pay_invoice_admin_only(st, info, id) ==
    LET loaded == config_read(st) IN
    IF ~loaded.ok THEN Outcome(Err(Std(loaded.err)), st)
    ELSE
    LET state == loaded.val
        invoice_storage == get_invoice_storage(st)
        found == load(invoice_storage, id)
    IN
    IF Addr_ne(info.sender, state.admin)
    THEN Outcome(Err(Unauthorized(<<"Only", "admin", "can", "pay", "invoice">>)), st)
    ELSE IF ~found.ok THEN Outcome(Err(LoadInvoiceFailed(found.err)), st)
    ELSE
    LET invoice == found.val
        amount == coins(invoice.amount, state.denom)
    IN
    IF ne(info.funds, amount)
    THEN Outcome(Err(SentFundsInvoiceMismatch), st)
    ELSE
    LET response == Response(<<attr("action", ActionPay),
                               attr("id", invoice.id),
                               attr("denom", state.denom),
                               attr("amount", ToString(invoice.amount)),
                               attr("sender", info.sender),
                               attr("recipient", state.recipient)>>,
                             <<BankSend(state.recipient, amount)>>)
    IN  Outcome(Ok(response),
                [st EXCEPT !.invoice = remove(invoice_storage, invoice.id)])

pay_invoice(st, info, id) ==
    LET loaded == config_read(st) IN
    IF ~loaded.ok THEN Outcome(Err(Std(loaded.err)), st)
    ELSE
    LET state == loaded.val
        invoice_storage == get_invoice_storage(st)
        found == load(invoice_storage, id)
    IN
    IF ~found.ok THEN Outcome(Err(LoadInvoiceFailed(found.err)), st)
    ELSE
    LET invoice == found.val
        amount == coins(invoice.amount, state.denom)
    IN
    IF ne(info.funds, amount)
    THEN Outcome(Err(SentFundsInvoiceMismatch), st)
    ELSE
    LET response == Response(<<attr("action", ActionPay),
                               attr("id", invoice.id),
                               attr("denom", state.denom),
                               attr("amount", ToString(invoice.amount)),
                               attr("sender", info.sender),
                               attr("recipient", state.recipient)>>,
                             <<BankSend(state.recipient, amount)>>)
    IN  Outcome(Ok(response),
                [st EXCEPT !.invoice = remove(invoice_storage, invoice.id)])

\* (variant) the configuration is loaded before the message is validated
execute_config_first(st, info, msg) ==
    LET loaded == config_read(st)
        valid == ExecuteMsg_validate(msg)
    IN
    IF ~loaded.ok THEN Outcome(Err(Std(loaded.err)), st)
    ELSE IF ~valid.ok THEN Outcome(Err(valid.err), st)
    ELSE CASE msg.type = "AddInvoice" ->
                add_invoice(st, info, msg.id, msg.amount, msg.description)
           [] msg.type = "CancelInvoice" -> cancel_invoice(st, info, msg.id)
           [] msg.type = "PayInvoice" -> pay_invoice(st, info, msg.id)

execute(st, info, msg) ==
    LET valid == ExecuteMsg_validate(msg) IN
    IF ~valid.ok THEN Outcome(Err(valid.err), st)
    ELSE CASE msg.type = "AddInvoice" ->
                add_invoice(st, info, msg.id, msg.amount, msg.description)
           [] msg.type = "CancelInvoice" -> cancel_invoice(st, info, msg.id)
           [] msg.type = "PayInvoice" -> pay_invoice(st, info, msg.id)

----------------------------------------------------------------------------
(* instantiate *)

\* the host ledger's markers: ProvenanceQuerier::get_marker_by_denom
get_marker_by_denom(denom) ==
    CASE denom = TEST_DENOM -> Ok([denom |-> denom, marker_type |-> "Coin"])
      [] denom = RESTRICTED_DENOM ->
            Ok([denom |-> denom, marker_type |-> "Restricted"])
      [] OTHER -> Err(GenericErr("marker not found"))

\* Api::addr_validate: the empty string is no address
addr_validate(human) ==
    IF human = "" THEN Err(GenericErr("invalid address")) ELSE Ok(human)

\* format!("{:?}", state)
DebugState(state) ==
    "State { admin: Addr(\"" \o state.admin \o "\"), recipient: Addr(\""
        \o state.recipient \o "\"), denom: \"" \o state.denom
        \o "\", business_name: \"" \o state.business_name \o "\" }"

instantiate(st, info, msg) ==
    LET valid == InstantiateMsg_validate(msg) IN
    IF ~valid.ok THEN Outcome(Err(valid.err), st)
    ELSE IF ~is_empty(info.funds)
    THEN Outcome(Err(contract_err("no funds should be sent during instantiate")), st)
    ELSE
    LET marker == get_marker_by_denom(msg.denom)
        is_unrestricted_marker == marker.ok /\ marker.val.marker_type = "Coin"
    IN
    IF ~is_unrestricted_marker THEN Outcome(Err(UnsupportedMarkerType), st)
    ELSE
    LET recipient == addr_validate(msg.recipient) IN
    IF ~recipient.ok THEN Outcome(Err(Std(recipient.err)), st)
    ELSE
    LET contract_info == State(info.sender, recipient.val, msg.denom,
                               msg.business_name)
        st1 == config(st, contract_info)
        st2 == set_contract_version(st1, CRATE_NAME, PACKAGE_VERSION)
    IN  Outcome(Ok(Response(<<attr("contract_info",
                                   DebugState(config_read(st2).val)),
                              attr("action", "init")>>, <<>>)),
                st2)

----------------------------------------------------------------------------
(* query *)

\* serde_json of the stored records: a Uint128 is written as a string, an
\* absent description as null
JsonNull == [json |-> "null"]
JsonString(s) == [json |-> "string", value |-> s]

to_binary_State(state) ==
    [admin |-> JsonString(state.admin), recipient |-> JsonString(state.recipient),
     denom |-> JsonString(state.denom),
     business_name |-> JsonString(state.business_name)]

to_binary_ContractVersion(v) ==
    [contract |-> JsonString(v.contract), version |-> JsonString(v.version)]

to_binary_Invoice(invoice) ==
    [id |-> JsonString(invoice.id),
     amount |-> JsonString(ToString(invoice.amount)),
     description |-> IF invoice.description = None THEN JsonNull
                     ELSE JsonString(unwrap(invoice.description))]

\* the ContractError of `msg.validate()?` as query's StdError: it is still
\* reported as InvalidFields with its field names
StdError_from(err) == err

query(st, msg) ==
    LET valid == QueryMsg_validate(msg) IN
    IF ~valid.ok THEN Err(StdError_from(valid.err))
    ELSE CASE msg.type = "GetContractInfo" ->
                LET loaded == config_read(st) IN
                IF loaded.ok THEN Ok(to_binary_State(loaded.val)) ELSE loaded
           [] msg.type = "GetVersionInfo" ->
                LET loaded == get_contract_version(st) IN
                IF loaded.ok THEN Ok(to_binary_ContractVersion(loaded.val))
                ELSE loaded
           [] msg.type = "GetInvoice" ->
                LET loaded == load(get_invoice_storage_read(st), msg.id) IN
                IF loaded.ok THEN Ok(to_binary_Invoice(loaded.val)) ELSE loaded

----------------------------------------------------------------------------
(* The state machine *)

NoCall == [entry |-> "none"]
NoResult == [ok |-> FALSE, err |-> [kind |-> "none"]]

MessageInfo(sender, funds) == [sender |-> sender, funds |-> funds]

\* history: the last successful lifecycle event of every id that parses
\* ("none", "add" with the caller that added it, or "remove" with the
\* amount of the invoice that was removed)
Keys == {i \in IdStrings : Uuid_parse_str(i).ok}
NoEvents == [i \in Keys |-> [kind |-> "none"]]

\* history: the storage and the events before the call in `call`
Before(st, ev) == [storage |-> st, events |-> ev]

\* the host's bank ledger of the contract, per denom: the funds it took in
\* with the calls that succeeded, the funds its instructions directed to the
\* recipient, and the amounts of the invoices removed by PayInvoice (kept
\* by the specification SpecLedger only)
Denoms == {TEST_DENOM, WRONG_DENOM}
NoLedger ==
    [accepted |-> [d \in Denoms |-> 0], directed |-> [d \in Denoms |-> 0],
     paid |-> 0]

Init ==
    /\ storage = EmptyStorage
    /\ call = NoCall
    /\ result = NoResult
    /\ pre = Before(EmptyStorage, NoEvents)
    /\ events = NoEvents
    /\ ledger = NoLedger

\* one call of the execute entry point
Execute(sender, funds, msg) ==
    LET out == execute(storage, MessageInfo(sender, funds), msg) IN
    /\ storage' = out.storage
    /\ call' = [entry |-> "execute", sender |-> sender, funds |-> funds,
                msg |-> msg]
    /\ result' = out.result
    /\ pre' = Before(storage, events)
    /\ events' = IF ~out.result.ok THEN events
                 ELSE [events EXCEPT ![msg.id] =
                          IF msg.type = "AddInvoice"
                          THEN [kind |-> "add", by |-> sender]
                          ELSE [kind |-> "remove",
                                amount |-> IF msg.id \in DOMAIN storage.invoice
                                           THEN storage.invoice[msg.id].amount
                                           ELSE 0]]

\* one call of the instantiate entry point
InstantiateCall(sender, funds, msg) ==
    LET out == instantiate(storage, MessageInfo(sender, funds), msg) IN
    /\ storage' = out.storage
    /\ call' = [entry |-> "instantiate", sender |-> sender,
                funds |-> funds, msg |-> msg]
    /\ result' = out.result
    /\ pre' = Before(storage, events)
    /\ UNCHANGED events

\* the host instantiates a contract once, on its empty storage
Instantiate ==
    /\ call = NoCall
    /\ storage.config = None
    /\ \E sender \in Principals, funds \in Funds, msg \in InstantiateMsgs :
          InstantiateCall(sender, funds, msg)
    /\ UNCHANGED ledger

Query ==
    /\ call = NoCall
    /\ \E msg \in QueryMsgs :
          /\ call' = [entry |-> "query", msg |-> msg]
          /\ result' = query(storage, msg)
          /\ pre' = Before(storage, events)
          /\ UNCHANGED <<storage, events, ledger>>

AddInvoice ==
    /\ call = NoCall
    /\ \E sender \in Principals, funds \in Funds, msg \in AddInvoiceMsgs :
          Execute(sender, funds, msg)
    /\ UNCHANGED ledger

CancelInvoice ==
    /\ call = NoCall
    /\ \E sender \in Principals, funds \in Funds, msg \in CancelInvoiceMsgs :
          Execute(sender, funds, msg)
    /\ UNCHANGED ledger

PayInvoice ==
    /\ call = NoCall
    /\ \E sender \in Principals, funds \in Funds, msg \in PayInvoiceMsgs :
          Execute(sender, funds, msg)
    /\ UNCHANGED ledger

\* the host takes the call's outcome; the next call can be made
Return ==
    /\ call # NoCall
    /\ call' = NoCall
    /\ result' = NoResult
    /\ pre' = Before(EmptyStorage, NoEvents)
    /\ UNCHANGED <<storage, events, ledger>>

Next ==
    Instantiate \/ AddInvoice \/ CancelInvoice \/ PayInvoice \/ Query \/ Return

Spec == Init /\ [][Next]_vars

TypeOK == call.entry \in {"none", "instantiate", "execute", "query", "validate"}

----------------------------------------------------------------------------
(* The validators on their own: a message of the wider universe below is   *)
(* handed to the validate() of its type.                                   *)

EMPTY_ID == ""
ValidatorIds == IdStrings \cup {EMPTY_ID}

\* descriptions of 64 and of 65 characters
DESCRIPTION_16 == "0123456789abcdef"
DESCRIPTION_64 ==
    DESCRIPTION_16 \o DESCRIPTION_16 \o DESCRIPTION_16 \o DESCRIPTION_16
DESCRIPTION_65 == DESCRIPTION_64 \o "0"

ValidatorDescriptions ==
    {None, Some(""), Some("d"), Some(DESCRIPTION), Some(DESCRIPTION_64),
     Some(DESCRIPTION_65)}

ValidatorExecuteMsgs ==
    {[type |-> "AddInvoice", id |-> i, amount |-> a, description |-> d] :
        i \in ValidatorIds, a \in Amounts, d \in ValidatorDescriptions}
    \cup {[type |-> "CancelInvoice", id |-> i] : i \in ValidatorIds}
    \cup {[type |-> "PayInvoice", id |-> i] : i \in ValidatorIds}

ValidatorQueryMsgs ==
    {[type |-> "GetInvoice", id |-> i] : i \in ValidatorIds}
        \cup {[type |-> "GetContractInfo"], [type |-> "GetVersionInfo"]}

Validating(of, msg) == [entry |-> "validate", of |-> of, msg |-> msg]

InitValidate ==
    /\ storage = EmptyStorage
    /\ call \in {Validating("ExecuteMsg", m) : m \in ValidatorExecuteMsgs}
                \cup {Validating("QueryMsg", m) : m \in ValidatorQueryMsgs}
                \cup {Validating("InstantiateMsg", m) : m \in InstantiateMsgs}
    /\ result = NoResult
    /\ pre = Before(EmptyStorage, NoEvents)
    /\ events = NoEvents
    /\ ledger = NoLedger

ValidateExecuteMsg ==
    /\ call.of = "ExecuteMsg" /\ result = NoResult
    /\ result' = ExecuteMsg_validate(call.msg)
    /\ UNCHANGED <<storage, call, pre, events, ledger>>

ValidateQueryMsg ==
    /\ call.of = "QueryMsg" /\ result = NoResult
    /\ result' = QueryMsg_validate(call.msg)
    /\ UNCHANGED <<storage, call, pre, events, ledger>>

ValidateInstantiateMsg ==
    /\ call.of = "InstantiateMsg" /\ result = NoResult
    /\ result' = InstantiateMsg_validate(call.msg)
    /\ UNCHANGED <<storage, call, pre, events, ledger>>

NextValidate == ValidateExecuteMsg \/ ValidateQueryMsg \/ ValidateInstantiateMsg

SpecValidate == InitValidate /\ [][NextValidate]_vars

----------------------------------------------------------------------------
(* The calls that carry funds, with the host's bank: the host credits the  *)
(* attached funds of a call that succeeds and executes the instructions of *)
(* its response with it; a call that fails is undone, funds included.      *)

\* what a list of coins holds of a denom
RECURSIVE Balance(_, _)
Balance(cs, denom) ==
    IF Len(cs) = 0 THEN 0
    ELSE (IF cs[1].denom = denom THEN cs[1].amount ELSE 0)
            + Balance(Tail(cs), denom)

\* the coins the instructions of a response send to an address
RECURSIVE SentTo(_, _)
SentTo(messages, address) ==
    IF Len(messages) = 0 THEN <<>>
    ELSE (IF messages[1].to_address = address THEN messages[1].amount ELSE <<>>)
            \o SentTo(Tail(messages), address)

\* the amounts of the invoices of a bucket under a set of keys
RECURSIVE SumOfAmounts(_, _)
SumOfAmounts(bucket, keys) ==
    IF keys = {} THEN 0
    ELSE LET k == CHOOSE x \in keys : TRUE
         IN  bucket[k].amount + SumOfAmounts(bucket, keys \ {k})

\* the ledger after a call on storage st that came out as `out`
HostSettles(led, st, funds, paying, out) ==
    IF ~out.result.ok THEN led
    ELSE
    LET sent == IF out.storage.config = None THEN <<>>
                ELSE SentTo(out.result.val.messages,
                            unwrap(out.storage.config).recipient)
        removed == DOMAIN st.invoice \ DOMAIN out.storage.invoice
    IN  [accepted |-> [d \in Denoms |-> led.accepted[d] + Balance(funds, d)],
         directed |-> [d \in Denoms |-> led.directed[d] + Balance(sent, d)],
         paid |-> led.paid
                    + (IF paying THEN SumOfAmounts(st.invoice, removed) ELSE 0)]

\* the funds of the calls followed with the ledger: no coin or one coin
LedgerFunds == {<<>>} \cup {<<c>> : c \in Coin}

\* the ledger is followed while the funds taken in, with those of the next
\* call, total at most MaxLedger
LedgerRoom(funds) ==
    ledger.accepted[TEST_DENOM] + ledger.accepted[WRONG_DENOM]
        + Balance(funds, TEST_DENOM) + Balance(funds, WRONG_DENOM) <= MaxLedger

LedgerExecute(sender, funds, msg) ==
    /\ LedgerRoom(funds)
    /\ Execute(sender, funds, msg)
    /\ ledger' = HostSettles(ledger, storage, funds, msg.type = "PayInvoice",
                             execute(storage, MessageInfo(sender, funds), msg))

LedgerInstantiate ==
    /\ call = NoCall
    /\ storage.config = None
    /\ \E sender \in Principals, funds \in LedgerFunds, msg \in InstantiateMsgs :
          /\ LedgerRoom(funds)
          /\ InstantiateCall(sender, funds, msg)
          /\ ledger' = HostSettles(ledger, storage, funds, FALSE,
                           instantiate(storage, MessageInfo(sender, funds), msg))

\* the AddInvoice requests, and those with an empty and with an over-long
\* description
LedgerAddInvoiceMsgs ==
    AddInvoiceMsgs
        \cup {[type |-> "AddInvoice", id |-> i, amount |-> a, description |-> d] :
                i \in IdStrings, a \in Amounts,
                d \in {Some(""), Some(DESCRIPTION_65)}}

LedgerAddInvoice ==
    /\ call = NoCall
    /\ \E sender \in Principals, funds \in LedgerFunds,
          msg \in LedgerAddInvoiceMsgs :
          LedgerExecute(sender, funds, msg)

LedgerCancelInvoice ==
    /\ call = NoCall
    /\ \E sender \in Principals, funds \in LedgerFunds, msg \in CancelInvoiceMsgs :
          LedgerExecute(sender, funds, msg)

LedgerPayInvoice ==
    /\ call = NoCall
    /\ \E sender \in Principals, funds \in LedgerFunds, msg \in PayInvoiceMsgs :
          LedgerExecute(sender, funds, msg)

NextLedger ==
    \/ LedgerInstantiate \/ LedgerAddInvoice \/ LedgerCancelInvoice
    \/ LedgerPayInvoice \/ Return

SpecLedger == Init /\ [][NextLedger]_vars

----------------------------------------------------------------------------
(* Vocabulary of the properties: they speak of the call in `call`, its     *)
(* outcome in `result`, the storage before it (pre.storage) and after it   *)
(* (storage).                                                              *)

IsExecute(type) == call.entry = "execute" /\ call.msg.type = type
IsAdd == IsExecute("AddInvoice")
IsCancel == IsExecute("CancelInvoice")
IsPay == IsExecute("PayInvoice")

ReqId == call.msg.id
WellFormedId == Uuid_parse_str(ReqId).ok
\* the rules of the validator for an AddInvoice, in the words of the spec
WellFormedAmount == call.msg.amount >= 1
WellFormedDescription ==
    \/ call.msg.description = None
    \/ Len(unwrap(call.msg.description)) \in 1..64
WellFormedFields ==
    /\ WellFormedId
    /\ IsAdd => WellFormedAmount /\ WellFormedDescription

ConfigBefore == pre.storage.config # None
Cfg == unwrap(pre.storage.config)
ByAdmin == ConfigBefore /\ call.sender = Cfg.admin
NoFunds == Len(call.funds) = 0

PresentBefore == ReqId \in DOMAIN pre.storage.invoice
PresentAfter == ReqId \in DOMAIN storage.invoice
Stored == pre.storage.invoice[ReqId]

ErrKind(kind) == ~result.ok /\ result.err.kind = kind
StoreUnchanged == storage = pre.storage

\* the attached funds are exactly one coin of the stored amount in the
\* configured denom
ExactFunds ==
    /\ Len(call.funds) = 1
    /\ call.funds[1].denom = Cfg.denom
    /\ call.funds[1].amount = Stored.amount

\* a word of a reason string
Names(reason, word) == \E i \in 1..Len(reason) : reason[i] = word

\* the attributes of a successful outcome: their keys in order, and the
\* values carried under a key
AttrKeys == [i \in 1..Len(result.val.attributes) |-> result.val.attributes[i].key]
AttrValues(key) ==
    {result.val.attributes[i].value :
        i \in {j \in 1..Len(result.val.attributes) :
                  result.val.attributes[j].key = key}}

\* the collection before the call without the invoice of the request
WithoutRequested ==
    [k \in DOMAIN pre.storage.invoice \ {ReqId} |-> pre.storage.invoice[k]]

----------------------------------------------------------------------------
\* C1: a PayInvoice with a well-formed id, Configuration present and the
\* invoice present succeeds iff the funds are exactly one coin of the stored
\* amount in Configuration.denom; any other funds list yields
\* SentFundsInvoiceMismatch and leaves the invoice present and unchanged.
C1_PayIffExactFunds ==
    (IsPay /\ WellFormedId /\ ConfigBefore /\ PresentBefore) =>
        /\ result.ok <=> ExactFunds
        /\ ~ExactFunds =>
              /\ result = Err(SentFundsInvoiceMismatch)
              /\ PresentAfter
              /\ storage.invoice[ReqId] = Stored

\* a Pay refused although its two coins, both in the configured denom, sum
\* to the stored amount
C1_Witness ==
    /\ IsPay /\ ConfigBefore /\ PresentBefore
    /\ Len(call.funds) = 2
    /\ call.funds[1].denom = Cfg.denom /\ call.funds[2].denom = Cfg.denom
    /\ call.funds[1].amount + call.funds[2].amount = Stored.amount
    /\ ErrKind("SentFundsInvoiceMismatch")
    /\ PresentAfter

----------------------------------------------------------------------------
\* the outcome of a successful Pay but for who receives: the invoice is
\* gone, and there is exactly one instruction, of the stored amount in
\* Configuration.denom, to Configuration.recipient
PaySettles ==
    /\ ~PresentAfter
    /\ Len(result.val.messages) = 1
    /\ result.val.messages[1].type = "BankMsg::Send"
    /\ result.val.messages[1].to_address = Cfg.recipient
    /\ Len(result.val.messages[1].amount) = 1
    /\ result.val.messages[1].amount[1].amount = Stored.amount
    /\ result.val.messages[1].amount[1].denom = Cfg.denom

\* in a Pay call, an invoice leaves the collection iff an instruction is
\* emitted
RemovalIffInstruction ==
    IsPay =>
        ((storage.invoice # pre.storage.invoice)
            <=> (result.ok /\ Len(result.val.messages) = 1))

\* C2 as stated: after every successful PayInvoice the invoice is absent and
\* the one instruction directs the stored amount in Configuration.denom to
\* Configuration.recipient, never to the caller or the admin; removal and
\* instruction come together.
C2_NeverToCallerOrAdmin ==
    /\ (IsPay /\ result.ok) =>
          /\ PaySettles
          /\ result.val.messages[1].to_address \notin {call.sender, Cfg.admin}
    /\ RemovalIffInstruction

\* C2 (amended): the instruction goes to Configuration.recipient, and so to
\* the caller or the admin only when that principal is the recipient.
C2_PaySettlesToRecipient ==
    /\ (IsPay /\ result.ok) =>
          /\ PaySettles
          /\ result.val.messages[1].to_address
                \notin ({call.sender, Cfg.admin} \ {Cfg.recipient})
    /\ RemovalIffInstruction

\* a successful Pay by a caller who is neither the admin nor the recipient
C2_Witness ==
    /\ IsPay /\ result.ok
    /\ call.sender \notin {Cfg.admin, Cfg.recipient}
    /\ Cfg.admin # Cfg.recipient
    /\ PresentBefore /\ ~PresentAfter

----------------------------------------------------------------------------
\* the successful Add and removal events of every id alternate, starting
\* with Add; an id is in the collection exactly while its last event is Add
Alternation ==
    /\ \A id \in Keys :
          (events[id].kind = "add") <=> (id \in DOMAIN storage.invoice)
    /\ (call.entry = "execute" /\ result.ok) =>
          IF IsAdd THEN pre.events[ReqId].kind \in {"none", "remove"}
          ELSE pre.events[ReqId].kind = "add"

RemovedBefore ==
    /\ call.entry = "execute"
    /\ WellFormedId
    /\ pre.events[ReqId].kind = "remove"

\* C3 as stated: Add and removal (Cancel or Pay) events of an id strictly
\* alternate, starting with Add; after a successful Pay or Cancel of id, a
\* further Pay or admin Cancel of id fails with LoadInvoiceFailed until id
\* is added again.
C3_AlternationAnyAdminCancel ==
    /\ Alternation
    /\ (RemovedBefore /\ (IsPay \/ (IsCancel /\ ByAdmin))) =>
          ErrKind("LoadInvoiceFailed")

\* C3 (amended): ... a further Pay, or a Cancel by the admin without
\* attached funds, fails with LoadInvoiceFailed until id is added again.
C3_AlternationOfAddAndRemoval ==
    /\ Alternation
    /\ (RemovedBefore /\ (IsPay \/ (IsCancel /\ ByAdmin /\ NoFunds))) =>
          ErrKind("LoadInvoiceFailed")

\* a Pay with the right funds on an id that was added and then removed fails
C3_Witness ==
    /\ RemovedBefore /\ IsPay
    /\ call.funds = coins(1, Cfg.denom)
    /\ ErrKind("LoadInvoiceFailed")

----------------------------------------------------------------------------
\* the caller of an execute call is not the admin (there is none, or it is
\* somebody else)
NonAdminCaller ==
    call.entry = "execute" /\ (~ConfigBefore \/ call.sender # Cfg.admin)

\* C4: no AddInvoice or CancelInvoice by a caller different from the admin
\* changes the collection; every present invoice was added by the admin;
\* the only change a non-admin caller causes is the removal of the invoice
\* it pays with exactly matching funds.
C4_OnlyAdminAddsAndCancels ==
    /\ (NonAdminCaller /\ (IsAdd \/ IsCancel)) => StoreUnchanged
    /\ \A id \in DOMAIN storage.invoice :
          /\ storage.config # None
          /\ events[id] = [kind |-> "add", by |-> unwrap(storage.config).admin]
    /\ (NonAdminCaller /\ ~StoreUnchanged) =>
          /\ IsPay /\ result.ok
          /\ PresentBefore /\ ExactFunds
          /\ storage = [pre.storage EXCEPT !.invoice =
                            [k \in DOMAIN pre.storage.invoice \ {ReqId} |->
                                pre.storage.invoice[k]]]

\* an otherwise valid Add of a fresh id by a caller who is not the admin
C4_Witness ==
    /\ IsAdd /\ ConfigBefore /\ call.sender # Cfg.admin
    /\ WellFormedFields /\ NoFunds /\ ~PresentBefore
    /\ ~result.ok
    /\ ~PresentAfter

----------------------------------------------------------------------------
\* C5: a valid AddInvoice (well-formed fields, caller is admin, no funds,
\* Configuration present) of an id not in the collection succeeds, and
\* GetInvoice for that id then returns exactly the submitted id, amount and
\* description, an absent description staying absent.
C5_AddThenGetInvoice ==
    (IsAdd /\ WellFormedFields /\ ByAdmin /\ NoFunds /\ ~PresentBefore) =>
        LET got == query(storage, [type |-> "GetInvoice", id |-> ReqId]) IN
        /\ result.ok
        /\ got.ok
        /\ got.val.id = JsonString(ReqId)
        /\ got.val.amount = JsonString(ToString(call.msg.amount))
        /\ got.val.description =
              IF call.msg.description = None THEN JsonNull
              ELSE JsonString(unwrap(call.msg.description))
        /\ storage.invoice[ReqId] =
              [id |-> ReqId, amount |-> call.msg.amount,
               description |-> call.msg.description]

\* a successful Add without a description
C5_Witness ==
    /\ IsAdd /\ result.ok
    /\ call.msg.description = None
    /\ ~PresentBefore /\ PresentAfter

----------------------------------------------------------------------------
\* no two invoices of the collection have the same id, and the invoice of
\* the request is stored as it was
KeptAndUnique ==
    /\ PresentAfter
    /\ storage.invoice[ReqId] = Stored
    /\ \A k1, k2 \in DOMAIN storage.invoice :
          storage.invoice[k1].id = storage.invoice[k2].id => k1 = k2

\* C6 as stated: an AddInvoice by the admin, without funds, of an id that
\* is present fails with InvalidFields whose fields contain "id", whatever
\* the submitted amount and description; the stored invoice is kept.
C6_DuplicateAlwaysNamesId ==
    (IsAdd /\ ByAdmin /\ NoFunds /\ PresentBefore) =>
        /\ ErrKind("InvalidFields")
        /\ Names(result.err.fields, "id")
        /\ KeptAndUnique

\* C6 (amended): ... fails with InvalidFields, whose fields contain "id"
\* when the submitted amount and description are valid (the validator's
\* InvalidFields names only the invalid ones otherwise); the stored invoice
\* is kept either way.
C6_DuplicateIdRejected ==
    (IsAdd /\ ByAdmin /\ NoFunds /\ PresentBefore) =>
        /\ ErrKind("InvalidFields")
        /\ (WellFormedAmount /\ WellFormedDescription) =>
              result.err.fields = <<"id">>
        /\ KeptAndUnique

\* a duplicate Add whose valid amount and description both differ from the
\* stored ones
C6_Witness ==
    /\ IsAdd /\ ByAdmin /\ NoFunds /\ PresentBefore
    /\ WellFormedAmount /\ WellFormedDescription
    /\ call.msg.amount # Stored.amount
    /\ call.msg.description # Stored.description
    /\ ErrKind("InvalidFields")

----------------------------------------------------------------------------
\* C7: an Add, Cancel or Pay that returns an error of any kind leaves
\* Configuration and the collection as they were, and carries no
\* attributes and no settlement instruction.
C7_ErrorsChangeNothing ==
    (call.entry = "execute" /\ ~result.ok) =>
        /\ StoreUnchanged
        /\ DOMAIN result = {"ok", "err"}
        /\ result.err.kind \in
              {"InvalidFields", "Unauthorized", "SentFundsUnsupported",
               "SentFundsInvoiceMismatch", "LoadInvoiceFailed", "Std"}

\* a Pay refused for its funds while two invoices are stored
C7_Witness ==
    /\ IsPay /\ ErrKind("SentFundsInvoiceMismatch")
    /\ Cardinality(DOMAIN pre.storage.invoice) = 2

----------------------------------------------------------------------------
UnauthorizedNamingAdmin ==
    /\ ErrKind("Unauthorized")
    /\ Names(result.err.error, "admin")

\* C8 as stated: an AddInvoice or CancelInvoice whose caller is not the
\* admin yields Unauthorized naming "admin", whether or not the other fields
\* of the request are valid.
C8_UnauthorizedWhateverTheFields ==
    ((IsAdd \/ IsCancel) /\ ConfigBefore /\ call.sender # Cfg.admin) =>
        UnauthorizedNamingAdmin

\* C8 (amended): ... yields Unauthorized naming "admin" when the fields of
\* the request pass validation, whatever funds are attached; a request
\* with invalid fields yields InvalidFields whoever the caller is.
C8_UnauthorizedForNonAdmin ==
    ((IsAdd \/ IsCancel) /\ ConfigBefore /\ call.sender # Cfg.admin) =>
        IF WellFormedFields THEN UnauthorizedNamingAdmin
        ELSE ErrKind("InvalidFields")

\* a Cancel of a present invoice, with funds attached, by another caller
C8_Witness ==
    /\ IsCancel /\ ConfigBefore /\ call.sender # Cfg.admin
    /\ PresentBefore /\ ~NoFunds
    /\ ErrKind("Unauthorized")

----------------------------------------------------------------------------
\* C9: an AddInvoice or CancelInvoice by the admin with well-formed fields
\* and a non-empty funds list yields SentFundsUnsupported, whatever the
\* funds and whether or not the invoice exists; nothing changes.
C9_AdminCallsTakeNoFunds ==
    ((IsAdd \/ IsCancel) /\ ByAdmin /\ WellFormedFields /\ ~NoFunds) =>
        /\ result = Err(SentFundsUnsupported)
        /\ StoreUnchanged

\* an Add of a fresh id by the admin with funds of exactly the invoice's
\* amount in the configured denom
C9_Witness ==
    /\ IsAdd /\ ByAdmin /\ WellFormedFields /\ ~PresentBefore
    /\ call.funds = coins(call.msg.amount, Cfg.denom)
    /\ ErrKind("SentFundsUnsupported")

----------------------------------------------------------------------------
\* C10 as stated: every CancelInvoice or PayInvoice naming an id that is not
\* in the collection results in LoadInvoiceFailed, the store unchanged
\* (read, in its favour, of well-formed ids and a present Configuration).
C10_AbsentIdAlwaysLoadFailed ==
    ((IsCancel \/ IsPay) /\ WellFormedId /\ ConfigBefore /\ ~PresentBefore) =>
        /\ ErrKind("LoadInvoiceFailed")
        /\ StoreUnchanged

\* C10 (amended): every PayInvoice, and every CancelInvoice by the admin
\* without funds, that names a well-formed id not in the collection while
\* Configuration is present results in LoadInvoiceFailed, the store
\* unchanged.
C10_AbsentIdLoadFailed ==
    (/\ IsPay \/ (IsCancel /\ ByAdmin /\ NoFunds)
     /\ WellFormedId /\ ConfigBefore /\ ~PresentBefore) =>
        /\ ErrKind("LoadInvoiceFailed")
        /\ result.err.error.kind = "NotFound"
        /\ StoreUnchanged

\* a Cancel by the admin of an absent id while another invoice is stored
C10_Witness ==
    /\ IsCancel /\ ByAdmin /\ NoFunds /\ WellFormedId /\ ~PresentBefore
    /\ DOMAIN pre.storage.invoice # {}
    /\ ErrKind("LoadInvoiceFailed")
----------------------------------------------------------------------------
\* C11: a CancelInvoice by the admin, without funds, of a present invoice
\* succeeds, removes exactly that invoice, and reports the amount that was
\* stored for it with Configuration's denom and recipient under
\* action=cancel_invoice.
C11_CancelRemovesAndReports ==
    (IsCancel /\ ByAdmin /\ NoFunds /\ PresentBefore) =>
        /\ result.ok
        /\ storage = [pre.storage EXCEPT !.invoice = WithoutRequested]
        /\ AttrValues("action") = {"cancel_invoice"}
        /\ AttrValues("id") = {ReqId}
        /\ AttrValues("amount") = {ToString(Stored.amount)}
        /\ AttrValues("denom") = {Cfg.denom}
        /\ AttrValues("recipient") = {Cfg.recipient}

\* a Cancel of an invoice of amount 2 that leaves the other invoice stored
C11_Witness ==
    /\ IsCancel /\ result.ok
    /\ Stored.amount = 2
    /\ DOMAIN pre.storage.invoice = Keys
    /\ Cardinality(DOMAIN storage.invoice) = 1
    /\ AttrValues("amount") = {"2"}
----------------------------------------------------------------------------
\* the message in `call` has been validated; the set of the names reported
Validated(type) ==
    /\ call.entry = "validate" /\ result # NoResult
    /\ call.of \in {"ExecuteMsg", "QueryMsg"}
    /\ call.msg.type = type
Reported ==
    IF result.ok THEN {}
    ELSE {result.err.fields[i] : i \in 1..Len(result.err.fields)}

\* what the rules of the validator name for the message in `call`
IdRule == IF WellFormedId THEN {} ELSE {"id"}
AmountRule == IF call.msg.amount < 1 THEN {"amount"} ELSE {}
DescriptionRule ==
    IF /\ call.msg.description # None
       /\ \/ Len(unwrap(call.msg.description)) = 0
          \/ Len(unwrap(call.msg.description)) > 64
    THEN {"description"} ELSE {}

\* the names the rules give for the message in `call`, in the order the
\* validator goes through the fields
InvalidNames ==
    LET rules == IF call.msg.type = "AddInvoice"
                 THEN IdRule \cup AmountRule \cup DescriptionRule
                 ELSE IdRule
    IN  SelectSeq(<<"id", "amount", "description">>, LAMBDA n : n \in rules)

\* C12: the validator is exhaustive.  For an AddInvoice the reported set is
\* exactly {"id" if id is no UUID} \cup {"amount" if amount < 1} \cup
\* {"description" if present and empty or longer than 64}, and the request
\* is valid iff the set is empty; an absent description and one of length 1
\* or 64 are accepted, one of length 65 is rejected; for Pay, Cancel and
\* GetInvoice the set is {"id"} iff id is no UUID.
C12_ValidatorExhaustive ==
    /\ Validated("AddInvoice") =>
          /\ Reported = IdRule \cup AmountRule \cup DescriptionRule
          /\ result.ok <=> (IdRule \cup AmountRule \cup DescriptionRule = {})
          /\ ~result.ok =>
                /\ result.err.kind = "InvalidFields"
                /\ Len(result.err.fields) = Cardinality(Reported)
          /\ call.msg.description = None => "description" \notin Reported
          /\ (call.msg.description # None
                /\ Len(unwrap(call.msg.description)) \in {1, 64})
                => "description" \notin Reported
          /\ (call.msg.description # None
                /\ Len(unwrap(call.msg.description)) = 65)
                => "description" \in Reported
    /\ (Validated("PayInvoice") \/ Validated("CancelInvoice")
            \/ Validated("GetInvoice")) =>
          /\ Reported = IdRule
          /\ result.ok <=> WellFormedId
          /\ ~result.ok => result = Err(InvalidFields(<<"id">>))

\* an Add with a malformed id, amount 0 and description "" reports the
\* three names in one InvalidFields
C12_Witness ==
    /\ Validated("AddInvoice")
    /\ ~WellFormedId /\ call.msg.amount = 0 /\ call.msg.description = Some("")
    /\ result = Err(InvalidFields(<<"id", "amount", "description">>))
----------------------------------------------------------------------------
\* an Add, Cancel, Pay or GetInvoice request that violates a validator rule
InvalidRequest ==
    \/ call.entry = "execute" /\ ~WellFormedFields
    \/ call.entry = "query" /\ call.msg.type = "GetInvoice" /\ ~WellFormedId

\* C13: validation precedes every state access.  An Add, Cancel, Pay or
\* GetInvoice request that violates a validator rule yields InvalidFields
\* whatever the store contains, whoever calls and whatever funds are
\* attached: the result is the InvalidFields of the names the rules give for
\* the message, a function of the message alone, so it is the same in any two
\* states; nothing is written.
C13_ValidationPrecedesState ==
    InvalidRequest =>
        /\ result = Err(InvalidFields(InvalidNames))
        /\ StoreUnchanged

\* an Add with an invalid amount, funds attached, by a caller other than the
\* deployer-to-be, before any Configuration exists
C13_Witness ==
    /\ IsAdd /\ ~ConfigBefore
    /\ WellFormedId /\ ~WellFormedAmount
    /\ ~NoFunds /\ call.sender = PAYER
    /\ result = Err(InvalidFields(<<"amount">>))
----------------------------------------------------------------------------
\* the outcome of the request in `call` had `other` made it, with the same
\* funds, on the same storage
HadCalled(other) ==
    execute(pre.storage, MessageInfo(other, call.funds), call.msg)

\* two successful outcomes differ in nothing but the value of the sender
\* attribute, which is each one's caller
SameButSender(val, caller, otherVal, other) ==
    /\ otherVal.messages = val.messages
    /\ Len(otherVal.attributes) = Len(val.attributes)
    /\ \A i \in 1..Len(val.attributes) :
          /\ otherVal.attributes[i].key = val.attributes[i].key
          /\ IF val.attributes[i].key = "sender"
             THEN /\ val.attributes[i].value = caller
                  /\ otherVal.attributes[i].value = other
             ELSE otherVal.attributes[i].value = val.attributes[i].value

\* C14: PayInvoice performs no identity check.  Had any other principal
\* made the same Pay call (same id, same funds) from the same state, the
\* result would be of the same kind (the same error when it fails), the
\* resulting store the same and the settlement instruction the same; only
\* the sender attribute differs.
C14_PayIgnoresCaller ==
    IsPay =>
        \A other \in Principals :
            /\ HadCalled(other).storage = storage
            /\ HadCalled(other).result.ok = result.ok
            /\ ~result.ok => HadCalled(other).result = result
            /\ result.ok =>
                  SameButSender(result.val, call.sender,
                                HadCalled(other).result.val, other)

\* a successful Pay by the recipient, who is not the admin
C14_Witness ==
    /\ IsPay /\ result.ok
    /\ call.sender = Cfg.recipient /\ call.sender # Cfg.admin
    /\ AttrValues("sender") = {call.sender}
    /\ HadCalled(Cfg.admin).result.ok
----------------------------------------------------------------------------
\* C15: while Configuration is absent, every Add, Cancel and Pay with
\* well-formed fields fails with the generic failure that carries the
\* configuration's not-found (not with Unauthorized, SentFundsUnsupported,
\* LoadInvoiceFailed or SentFundsInvoiceMismatch), for any caller and any
\* funds, and no invoice is created or removed.
C15_NoConfigurationNoOperation ==
    (call.entry = "execute" /\ ~ConfigBefore /\ WellFormedFields) =>
        /\ ErrKind("Std")
        /\ result.err.error = NotFound("invoice::state::State")
        /\ result.err.kind \notin
              {"Unauthorized", "SentFundsUnsupported", "LoadInvoiceFailed",
               "SentFundsInvoiceMismatch"}
        /\ storage.invoice = pre.storage.invoice
        /\ storage.config = None

\* a valid Add with funds attached, before any Configuration exists
C15_Witness ==
    /\ IsAdd /\ ~ConfigBefore /\ WellFormedFields /\ ~NoFunds
    /\ ErrKind("Std")
    /\ DOMAIN storage.invoice = {}
----------------------------------------------------------------------------
\* C16: once initialization has succeeded, Configuration (admin, recipient,
\* denom, business_name) is the same in every later state and is never
\* deleted: no step of any call, by any caller with any funds, leaves a
\* present Configuration different or absent.
C16_ConfigurationImmutable ==
    [][storage.config # None => storage'.config = storage.config]_vars

\* a successful Cancel by the admin, Configuration as it was
C16_Witness ==
    /\ IsCancel /\ result.ok /\ ConfigBefore
    /\ storage.config = pre.storage.config
    /\ DOMAIN unwrap(storage.config) =
          {"admin", "recipient", "denom", "business_name"}
----------------------------------------------------------------------------
\* C17: no operation amends a present invoice.  For every id and every
\* call, successful or failed, an invoice present both before and after the
\* call has the same amount and the same description before and after.
C17_NoInvoiceAmended ==
    \A id \in DOMAIN pre.storage.invoice \cap DOMAIN storage.invoice :
        /\ storage.invoice[id].amount = pre.storage.invoice[id].amount
        /\ storage.invoice[id].description = pre.storage.invoice[id].description

\* a successful Add while another invoice, of another amount and
\* description, is stored
C17_Witness ==
    /\ IsAdd /\ result.ok
    /\ \E id \in DOMAIN pre.storage.invoice :
          /\ id \in DOMAIN storage.invoice
          /\ storage.invoice[id].amount # call.msg.amount
          /\ storage.invoice[id].description # call.msg.description
----------------------------------------------------------------------------
\* C18: re-adding a removed id is permitted.  After an id was removed by a
\* successful Cancel or Pay, a later AddInvoice of the same id by the admin,
\* without funds and with valid fields, succeeds and stores the newly
\* submitted amount and description, whatever the removed invoice held.
C18_ReAddAfterRemoval ==
    (IsAdd /\ RemovedBefore /\ ByAdmin /\ NoFunds /\ WellFormedFields) =>
        /\ result.ok
        /\ PresentAfter
        /\ storage.invoice[ReqId] =
              [id |-> ReqId, amount |-> call.msg.amount,
               description |-> call.msg.description]

\* a removed id added again with an amount other than the one it had
C18_Witness ==
    /\ IsAdd /\ RemovedBefore /\ result.ok
    /\ call.msg.amount # pre.events[ReqId].amount
    /\ storage.invoice[ReqId].amount = call.msg.amount
    /\ events[ReqId].kind = "add"
----------------------------------------------------------------------------
\* C19: shape of successful outcomes.  A successful Add or Cancel emits
\* exactly the five attributes action, id, denom, amount, recipient, in that
\* order, with denom and recipient taken from Configuration, and no
\* settlement instruction; a successful Pay emits exactly the six attributes
\* action, id, denom, amount, sender, recipient, in that order, and exactly
\* one settlement instruction.
C19_ShapeOfSuccess ==
    /\ ((IsAdd \/ IsCancel) /\ result.ok) =>
          /\ AttrKeys = <<"action", "id", "denom", "amount", "recipient">>
          /\ result.val.attributes[3].value = Cfg.denom
          /\ result.val.attributes[5].value = Cfg.recipient
          /\ result.val.messages = <<>>
    /\ (IsPay /\ result.ok) =>
          /\ AttrKeys =
                <<"action", "id", "denom", "amount", "sender", "recipient">>
          /\ Len(result.val.messages) = 1
          /\ result.val.messages[1].type = "BankMsg::Send"

\* a successful Cancel of an invoice that nobody paid: five attributes and
\* nothing sent to anyone
C19_Witness ==
    /\ IsCancel /\ result.ok
    /\ Len(result.val.attributes) = 5
    /\ Len(result.val.messages) = 0
    /\ result.val.attributes[1] = [key |-> "action", value |-> "cancel_invoice"]
----------------------------------------------------------------------------
IsQuery(type) == call.entry = "query" /\ call.msg.type = type

\* C20: queries are read-only projections.  No GetInvoice, GetContractInfo
\* or GetVersionInfo changes Configuration or the collection; GetInvoice
\* with a well-formed id returns the stored record when the id is present
\* and fails with not-found when it is absent; GetContractInfo fails with
\* not-found when Configuration is absent.
C20_QueriesReadOnly ==
    /\ call.entry = "query" =>
          /\ storage.config = pre.storage.config
          /\ storage.invoice = pre.storage.invoice
    /\ (IsQuery("GetInvoice") /\ WellFormedId) =>
          IF PresentBefore
          THEN /\ result.ok
               /\ result.val.id = JsonString(Stored.id)
               /\ result.val.amount = JsonString(ToString(Stored.amount))
               /\ result.val.description =
                     IF Stored.description = None THEN JsonNull
                     ELSE JsonString(unwrap(Stored.description))
          ELSE ErrKind("NotFound")
    /\ (IsQuery("GetContractInfo") /\ ~ConfigBefore) => ErrKind("NotFound")

\* a GetInvoice of an id that was added and then paid or cancelled, while
\* the invoice of the other id is stored
C20_Witness ==
    /\ IsQuery("GetInvoice") /\ WellFormedId
    /\ pre.events[ReqId].kind = "remove"
    /\ DOMAIN storage.invoice # {}
    /\ ErrKind("NotFound")
----------------------------------------------------------------------------
IsInstantiate == call.entry = "instantiate"

\* the empty fields of an initialization request, denom first
EmptyFields ==
    SelectSeq(<<"denom", "business_name">>, LAMBDA n : call.msg[n] = "")

\* the denom of the request names an unrestricted (coin-type) marker of the
\* host ledger
UnrestrictedMarker ==
    /\ get_marker_by_denom(call.msg.denom).ok
    /\ get_marker_by_denom(call.msg.denom).val.marker_type = "Coin"

\* what C21 says of empty fields, of attached funds and of every failure
InitializationFailures ==
    /\ EmptyFields # <<>> => result = Err(InvalidFields(EmptyFields))
    /\ ~NoFunds => ~result.ok
    /\ ~result.ok => storage.config = None /\ StoreUnchanged

\* C21 as stated: an initialization with empty denom and/or business_name
\* fails with InvalidFields naming each empty field; one with any funds
\* fails; one whose denom names no unrestricted marker fails with
\* UnsupportedMarkerType; no failure stores a Configuration (the third part
\* read, in its favour, of requests whose fields are not empty).
C21_UnsupportedMarkerWhateverTheFunds ==
    IsInstantiate =>
        /\ InitializationFailures
        /\ (EmptyFields = <<>> /\ ~UnrestrictedMarker) =>
              ErrKind("UnsupportedMarkerType")

\* C21 (amended): ... one whose fields are not empty, without funds, and
\* whose denom names no unrestricted marker fails with
\* UnsupportedMarkerType (with funds attached it fails for the funds).
C21_InitializationFailureModes ==
    IsInstantiate =>
        /\ InitializationFailures
        /\ (EmptyFields = <<>> /\ NoFunds /\ ~UnrestrictedMarker) =>
              ErrKind("UnsupportedMarkerType")
        /\ (EmptyFields = <<>> /\ ~NoFunds) =>
              ~ErrKind("UnsupportedMarkerType")

\* an initialization without funds whose denom names a restricted marker
C21_Witness ==
    /\ IsInstantiate /\ NoFunds
    /\ call.msg.denom = RESTRICTED_DENOM /\ call.msg.business_name # ""
    /\ ErrKind("UnsupportedMarkerType")
    /\ storage.config = None
----------------------------------------------------------------------------
\* an initialization request that meets every precondition
ValidInitialization ==
    /\ IsInstantiate
    /\ call.msg.denom # "" /\ call.msg.business_name # ""
    /\ NoFunds
    /\ UnrestrictedMarker
    /\ addr_validate(call.msg.recipient).ok

\* C22: a successful initialization (non-empty denom and business_name, no
\* funds, denom naming an unrestricted marker, recipient a valid address)
\* stores a Configuration whose admin is the caller and whose recipient,
\* denom and business_name are those of the request, creates no invoice,
\* emits no settlement instruction and exactly the two attributes
\* contract_info and action=init; GetContractInfo then returns that
\* Configuration.
C22_InitializationStoresConfiguration ==
    ValidInitialization =>
        /\ result.ok
        /\ storage.config =
              Some([admin |-> call.sender, recipient |-> call.msg.recipient,
                    denom |-> call.msg.denom,
                    business_name |-> call.msg.business_name])
        /\ storage.invoice = EmptyBucket
        /\ result.val.messages = <<>>
        /\ AttrKeys = <<"contract_info", "action">>
        /\ result.val.attributes[2].value = "init"
        /\ query(storage, [type |-> "GetContractInfo"]) =
              Ok([admin |-> JsonString(call.sender),
                  recipient |-> JsonString(call.msg.recipient),
                  denom |-> JsonString(call.msg.denom),
                  business_name |-> JsonString(call.msg.business_name)])

\* an initialization by a caller who is not the recipient it names
C22_Witness ==
    /\ IsInstantiate /\ result.ok
    /\ call.sender = PAYER /\ call.msg.recipient = RECIPIENT
    /\ unwrap(storage.config).admin = PAYER
    /\ pre.storage.config = None
----------------------------------------------------------------------------
\* the checks of the call in `call`, in the order C23 gives them: the kind
\* of the error of the first one that fails, "Ok" when none does
FirstFailingCheck ==
    IF ~WellFormedFields THEN "InvalidFields"
    ELSE IF ~ConfigBefore THEN "Std"
    ELSE IF IsAdd THEN
        IF call.sender # Cfg.admin THEN "Unauthorized"
        ELSE IF ~NoFunds THEN "SentFundsUnsupported"
        ELSE IF PresentBefore THEN "InvalidFields"
        ELSE "Ok"
    ELSE IF IsCancel THEN
        IF call.sender # Cfg.admin THEN "Unauthorized"
        ELSE IF ~NoFunds THEN "SentFundsUnsupported"
        ELSE IF ~PresentBefore THEN "LoadInvoiceFailed"
        ELSE "Ok"
    ELSE
        IF ~PresentBefore THEN "LoadInvoiceFailed"
        ELSE IF ~ExactFunds THEN "SentFundsInvoiceMismatch"
        ELSE "Ok"

\* C23: each mutating call reports the error of the first failing check in
\* a fixed order.  Add: field validation, Configuration load, admin check
\* (Unauthorized), funds check (SentFundsUnsupported), duplicate id
\* (InvalidFields{id}).  Cancel: field validation, Configuration load, admin
\* check, funds check, invoice lookup (LoadInvoiceFailed).  Pay: field
\* validation, Configuration load, invoice lookup (LoadInvoiceFailed), funds
\* match (SentFundsInvoiceMismatch).  A call that fails no check succeeds.
C23_FirstFailingCheck ==
    call.entry = "execute" =>
        /\ IF FirstFailingCheck = "Ok" THEN result.ok
           ELSE ErrKind(FirstFailingCheck)
        /\ ErrKind("InvalidFields") =>
              result.err.fields =
                  IF WellFormedFields THEN <<"id">> ELSE InvalidNames

\* a Cancel by the admin, with funds attached, of an id that is absent:
\* the funds are reported, not the missing invoice
C23_Witness ==
    /\ IsCancel /\ ByAdmin /\ ~NoFunds /\ WellFormedId /\ ~PresentBefore
    /\ ErrKind("SentFundsUnsupported")
----------------------------------------------------------------------------
\* the coins the response of the call in `call` directs to the recipient of
\* the Configuration the call leaves
DirectedToRecipient ==
    SentTo(result.val.messages, unwrap(storage.config).recipient)

\* C24: the contract never retains funds.  On every successful call the
\* funds attached equal the funds named in the emitted settlement
\* instruction: both empty for initialization, Add and Cancel, the same
\* single coin for Pay.  With the host executing each instruction with its
\* call, the funds taken in less the funds directed to
\* Configuration.recipient is zero in every reachable state, and the total
\* directed to the recipient is the sum of the amounts of the invoices
\* removed by Pay.
C24_NoFundsRetained ==
    /\ (call.entry \in {"instantiate", "execute"} /\ result.ok) =>
          /\ call.funds = DirectedToRecipient
          /\ Len(call.funds) = IF IsPay THEN 1 ELSE 0
          /\ Len(result.val.messages) = Len(call.funds)
    /\ \A d \in Denoms : ledger.accepted[d] - ledger.directed[d] = 0
    /\ ledger.directed[TEST_DENOM] + ledger.directed[WRONG_DENOM] = ledger.paid
    /\ \A d \in Denoms :
          ledger.directed[d] > 0 =>
              storage.config # None /\ d = unwrap(storage.config).denom

\* the second of two payments: an invoice of amount 2 paid after one of
\* amount 1
C24_Witness ==
    /\ IsPay /\ result.ok
    /\ Stored.amount = 2
    /\ ledger.paid = 3
    /\ ledger.accepted[Cfg.denom] = 3
    /\ ledger.directed[Cfg.denom] = 3
----------------------------------------------------------------------------
\* C25: in every state reached from the empty store through initialization
\* and Add, Cancel and Pay calls, every invoice of the collection is well
\* formed: the id of the record is the key it is stored under, the id parses
\* as a UUID, the amount is at least 1, and the description is absent or of
\* length 1 to 64.  Hence a successful Cancel or Pay, which removes the
\* entry keyed by the stored record's id, removes exactly the entry named in
\* the request.
C25_StoredInvoicesWellFormed ==
    /\ \A key \in DOMAIN storage.invoice :
          /\ storage.invoice[key].id = key
          /\ Uuid_parse_str(key).ok
          /\ storage.invoice[key].amount >= 1
          /\ \/ storage.invoice[key].description = None
             \/ Len(unwrap(storage.invoice[key].description)) \in 1..64
    /\ ((IsCancel \/ IsPay) /\ result.ok) =>
          /\ PresentBefore
          /\ storage.invoice = WithoutRequested

\* two invoices stored, one with a description and one without, after
\* an Add with an empty description was refused
C25_Witness ==
    /\ IsAdd /\ call.msg.description = Some("")
    /\ ByAdmin /\ NoFunds /\ WellFormedId /\ WellFormedAmount
    /\ ErrKind("InvalidFields")
    /\ DOMAIN storage.invoice = Keys
    /\ \E k1, k2 \in Keys :
          /\ storage.invoice[k1].description = None
          /\ storage.invoice[k2].description # None
----------------------------------------------------------------------------
\* C26: a successful Add, Cancel or Pay on an id changes only the entry of
\* the collection for that id: every other id is present or absent as
\* before, with the same amount and description, and Configuration is
\* unchanged.
C26_OnlyTheRequestedEntryChanges ==
    (call.entry = "execute" /\ result.ok) =>
        /\ storage.config = pre.storage.config
        /\ DOMAIN storage.invoice \ {ReqId} = DOMAIN pre.storage.invoice \ {ReqId}
        /\ \A other \in DOMAIN storage.invoice \ {ReqId} :
              /\ storage.invoice[other].amount = pre.storage.invoice[other].amount
              /\ storage.invoice[other].description =
                    pre.storage.invoice[other].description
        /\ PresentAfter # PresentBefore

\* a successful Pay of one of two stored invoices
C26_Witness ==
    /\ IsPay /\ result.ok
    /\ DOMAIN pre.storage.invoice = Keys
    /\ DOMAIN storage.invoice = Keys \ {ReqId}
----------------------------------------------------------------------------
\* the collections that differ in the invoice of the request: without it,
\* and with it under every amount and description
CollectionsAround ==
    {WithoutRequested}
        \cup {[k \in DOMAIN WithoutRequested \cup {ReqId} |->
                 IF k = ReqId
                 THEN [id |-> ReqId, amount |-> a, description |-> d]
                 ELSE WithoutRequested[k]] :
                a \in 1..MaxAmount, d \in Descriptions}

\* the result of the call in `call` had the collection been another one,
\* Configuration being the same
ResultOver(collection) ==
    execute([pre.storage EXCEPT !.invoice = collection],
            MessageInfo(call.sender, call.funds), call.msg).result

\* C27: a non-admin cannot probe the collection through Add or Cancel.  A
\* well-formed Add or Cancel request from a caller different from
\* Configuration.admin has the same result, Unauthorized, in any two states
\* with the same Configuration, whether or not the named invoice exists and
\* whatever its amount is.
C27_NoProbingByNonAdmin ==
    ((IsAdd \/ IsCancel) /\ WellFormedFields
        /\ ConfigBefore /\ call.sender # Cfg.admin) =>
        /\ ErrKind("Unauthorized")
        /\ \A collection \in CollectionsAround : ResultOver(collection) = result

\* a Cancel of a stored invoice refused to a caller who is not the admin,
\* as it would have been had the invoice not been there
C27_Witness ==
    /\ IsCancel /\ ConfigBefore /\ call.sender # Cfg.admin
    /\ PresentBefore
    /\ ErrKind("Unauthorized")
    /\ ResultOver(WithoutRequested) = result
----------------------------------------------------------------------------
\* a CancelInvoice of the id of the call in `call`, made next, on the
\* storage the call left
CancelNext(sender, funds) ==
    execute(storage, MessageInfo(sender, funds),
            [type |-> "CancelInvoice", id |-> ReqId])

\* C28: Add followed by Cancel is a round trip on the store.  From a state
\* where id is absent, a successful Add(id, amount, description) followed
\* immediately by a successful Cancel(id) yields the Configuration and the
\* collection of before the Add, and the Cancel reports the amount given to
\* the Add; the admin's Cancel without funds is such a Cancel.
C28_AddCancelRoundTrip ==
    (IsAdd /\ result.ok /\ ~PresentBefore) =>
        /\ \A sender \in Principals, funds \in Funds :
              CancelNext(sender, funds).result.ok =>
                  /\ CancelNext(sender, funds).storage.config = pre.storage.config
                  /\ CancelNext(sender, funds).storage.invoice = pre.storage.invoice
                  /\ \A i \in 1..Len(CancelNext(sender, funds).result.val.attributes) :
                        LET a == CancelNext(sender, funds).result.val.attributes[i]
                        IN  a.key = "amount" => a.value = ToString(call.msg.amount)
        /\ CancelNext(Cfg.admin, <<>>).result.ok
        /\ CancelNext(Cfg.admin, <<>>).result.val.attributes[4] =
              [key |-> "amount", value |-> ToString(call.msg.amount)]

\* an Add of amount 2 next to a stored invoice of amount 1, which the Cancel
\* made next takes back
C28_Witness ==
    /\ IsAdd /\ result.ok /\ call.msg.amount = 2
    /\ \E other \in DOMAIN pre.storage.invoice :
          pre.storage.invoice[other].amount = 1
    /\ storage.invoice # pre.storage.invoice
    /\ CancelNext(call.sender, <<>>).result.ok
    /\ CancelNext(call.sender, <<>>).storage.invoice = pre.storage.invoice
----------------------------------------------------------------------------
\* the invoices stored before the call under another spelling of the UUID
\* of the request
OtherSpellingsBefore ==
    {k \in DOMAIN pre.storage.invoice :
        /\ k # ReqId
        /\ Uuid_parse_str(k).ok
        /\ Uuid_parse_str(k).val = Uuid_parse_str(ReqId).val}

\* C29: uniqueness of invoice ids is decided on the exact id string.  The
\* validator accepts every spelling that parses as a UUID and the duplicate
\* check looks up the id as submitted: an Add is rejected as a duplicate
\* only when a stored invoice has the identical id string, and an Add whose
\* id is another accepted spelling of the UUID of a stored invoice is
\* treated as fresh and creates a second invoice.
C29_UniquenessOnExactString ==
    /\ (IsAdd /\ WellFormedFields /\ ErrKind("InvalidFields")) =>
          /\ PresentBefore
          /\ Stored.id = ReqId
    /\ (IsAdd /\ WellFormedFields /\ ByAdmin /\ NoFunds
            /\ ~PresentBefore /\ OtherSpellingsBefore # {}) =>
          /\ result.ok
          /\ DOMAIN storage.invoice = DOMAIN pre.storage.invoice \cup {ReqId}
          /\ storage.invoice[ReqId].id = ReqId
          /\ \A k \in OtherSpellingsBefore :
                storage.invoice[k] = pre.storage.invoice[k]

\* the upper-case spelling added while the lower-case spelling of the same
\* UUID is stored: two invoices of one UUID
C29_Witness ==
    /\ IsAdd /\ result.ok
    /\ ReqId = INVOICE_ID_UPPER
    /\ INVOICE_ID \in DOMAIN pre.storage.invoice
    /\ DOMAIN storage.invoice = {INVOICE_ID, INVOICE_ID_UPPER}
====
